---- MODULE Spec2Model ----
(***************************************************************************)
(* Model of dcalvo/touchtype: the flatten / roll-up codec of               *)
(* data_capture.py and the tracker, renderer and poll loop of              *)
(* leap_motion_tracker.py.                                                 *)
(*                                                                         *)
(* A Python object is a function from attribute names to values; a header  *)
(* "a.b" is the sequence <<"a", "b">> of its dot-separated segments, so    *)
(* `"." in header` is Len(header) > 1 and header.split(".", maxsplit=1)    *)
(* is <<Head(header), Tail(header)>>.                                      *)
(***************************************************************************)
EXTENDS Integers, Sequences, FiniteSets, TLC

(***************************************************************************)
(* Bounds of the model.                                                    *)
(***************************************************************************)
\* number of value patterns a Hand's scalars are drawn from
NVariants == 2
\* scalars of a Hand are drawn from -(ValMod \div 2) .. ValMod \div 2
ValMod == 257
\* how many scalars too many a caller may hand to roll_up_hand_data
MaxExtra == 2
\* a coordinate value c stands for the float c / Scale
Scale == 2
\* tracking notifications delivered in one run of a poll loop
MaxEvents == 3

(***************************************************************************)
(* Python's None, and truthiness of the values the code tests with `if`:   *)
(* a joint vector, a projected (x, y) tuple and a TrackingEvent are truthy *)
(* whenever they are not None.                                             *)
(***************************************************************************)
None == [none |-> TRUE]

Truthy(value) == value # None

(***************************************************************************)
(* Schema tables (data_capture.py:10-62).                                  *)
(***************************************************************************)
hand_data_headers ==
    << <<"confidence">>, <<"pinch_distance">>, <<"grab_angle">>,
       <<"pinch_strength">>, <<"grab_strength">> >>

palm_data_headers ==
    << <<"position", "x">>, <<"position", "y">>, <<"position", "z">>,
       <<"stabilized_position", "x">>, <<"stabilized_position", "y">>,
       <<"stabilized_position", "z">>,
       <<"velocity", "x">>, <<"velocity", "y">>, <<"velocity", "z">>,
       <<"normal", "x">>, <<"normal", "y">>, <<"normal", "z">>,
       <<"width">>,
       <<"direction", "x">>, <<"direction", "y">>, <<"direction", "z">>,
       <<"orientation", "x">>, <<"orientation", "y">>, <<"orientation", "z">>,
       <<"orientation", "w">> >>

digit_data_headers == << <<"is_extended">> >>

bone_data_headers ==
    << <<"prev_joint", "x">>, <<"prev_joint", "y">>, <<"prev_joint", "z">>,
       <<"next_joint", "x">>, <<"next_joint", "y">>, <<"next_joint", "z">>,
       <<"width">>,
       <<"rotation", "x">>, <<"rotation", "y">>, <<"rotation", "z">>,
       <<"rotation", "w">> >>

(***************************************************************************)
(* Hands as the tracking source delivers them.  Every field the header     *)
(* tables name, and the ones they comment out (id, flags, type,            *)
(* visible_time, finger_id), is present; scalar number k of variant v has  *)
(* the value Val(v, k), so that different digits and bones hold different  *)
(* values.                                                                 *)
(***************************************************************************)
Val(v, k) == ((v * (k + 1) + v * v * (k \div 7)) % ValMod) - (ValMod \div 2)

MkVector(v, k) == [x |-> Val(v, k), y |-> Val(v, k + 1), z |-> Val(v, k + 2)]

MkQuaternion(v, k) ==
    [x |-> Val(v, k), y |-> Val(v, k + 1), z |-> Val(v, k + 2), w |-> Val(v, k + 3)]

MkBone(v, k) ==
    [prev_joint |-> MkVector(v, k), next_joint |-> MkVector(v, k + 3),
     width |-> Val(v, k + 6), rotation |-> MkQuaternion(v, k + 7)]

MkDigit(v, k, fid) ==
    [finger_id |-> fid, is_extended |-> Val(v, k) % 2,
     metacarpal |-> MkBone(v, k + 1), proximal |-> MkBone(v, k + 12),
     intermediate |-> MkBone(v, k + 23), distal |-> MkBone(v, k + 34)]

MkPalm(v, k) ==
    [position |-> MkVector(v, k), stabilized_position |-> MkVector(v, k + 3),
     velocity |-> MkVector(v, k + 6), normal |-> MkVector(v, k + 9),
     width |-> Val(v, k + 12), direction |-> MkVector(v, k + 13),
     orientation |-> MkQuaternion(v, k + 16)]

MkHand(type, v) ==
    [id |-> v, flags |-> 0, type |-> type, visible_time |-> v,
     confidence |-> Val(v, 0), pinch_distance |-> Val(v, 1),
     grab_angle |-> Val(v, 2), pinch_strength |-> Val(v, 3),
     grab_strength |-> Val(v, 4),
     palm |-> MkPalm(v, 5),
     arm |-> MkBone(v, 250),
     thumb |-> MkDigit(v, 25, 0), index |-> MkDigit(v, 70, 1),
     middle |-> MkDigit(v, 115, 2), ring |-> MkDigit(v, 160, 3),
     pinky |-> MkDigit(v, 205, 4)]

HandTypes == {"Left", "Right"}

(***************************************************************************)
(* leap.datatypes as data_capture.py uses it: Hand.digits and Digit.bones  *)
(* list the named members in the library's fixed order.                    *)
(***************************************************************************)
DigitOrder == <<"thumb", "index", "middle", "ring", "pinky">>

BoneOrder == <<"metacarpal", "proximal", "intermediate", "distal">>

HasAttrs(struct, names) == \A i \in 1..Len(names) : names[i] \in DOMAIN struct

digits(hand) == [i \in 1..Len(DigitOrder) |-> hand[DigitOrder[i]]]

bones(digit) == [i \in 1..Len(BoneOrder) |-> digit[BoneOrder[i]]]

(***************************************************************************)
(* Results of the codec's functions: err is "" on a normal return,         *)
(* otherwise the name of the exception raised.                             *)
(***************************************************************************)
NoError == ""

RECURSIVE Flatten(_)
Flatten(seqs) == IF seqs = <<>> THEN <<>> ELSE Head(seqs) \o Flatten(Tail(seqs))

(***************************************************************************)
(* extract_data (data_capture.py:65-82).                                   *)
(***************************************************************************)
RECURSIVE HasPath(_, _)
HasPath(root, header) ==
    /\ Head(header) \in DOMAIN root
    /\ Len(header) > 1 => HasPath(root[Head(header)], Tail(header))

RECURSIVE GetPath(_, _)
GetPath(root, header) ==
    IF Len(header) > 1
    THEN GetPath(root[Head(header)], Tail(header))
    ELSE root[Head(header)]

extract_data(struct, headers) ==
    IF \A i \in 1..Len(headers) : HasPath(struct, headers[i])
    THEN [err |-> NoError,
          data |-> [i \in 1..Len(headers) |-> GetPath(struct, headers[i])]]
    ELSE [err |-> "AttributeError", data |-> <<>>]

(***************************************************************************)
(* extract_digit_data (data_capture.py:85-95).                             *)
(***************************************************************************)
extract_digit_data(digit) ==
    LET digit_data == extract_data(digit, digit_data_headers)
        bone_data ==
            [i \in 1..Len(BoneOrder) |-> extract_data(bones(digit)[i], bone_data_headers)]
    IN  IF /\ digit_data.err = NoError
           /\ HasAttrs(digit, BoneOrder)
           /\ \A i \in 1..Len(BoneOrder) : bone_data[i].err = NoError
        THEN [err |-> NoError,
              data |-> digit_data.data
                         \o Flatten([i \in 1..Len(BoneOrder) |-> bone_data[i].data])]
        ELSE [err |-> "AttributeError", data |-> <<>>]

(***************************************************************************)
(* extract_hand_data (data_capture.py:98-110).                             *)
(***************************************************************************)
extract_hand_data(hand) ==
    LET hand_data == extract_data(hand, hand_data_headers)
        palm_data == extract_data(hand.palm, palm_data_headers)
        digit_data ==
            [i \in 1..Len(DigitOrder) |-> extract_digit_data(digits(hand)[i])]
    IN  IF /\ hand_data.err = NoError
           /\ "palm" \in DOMAIN hand
           /\ palm_data.err = NoError
           /\ HasAttrs(hand, DigitOrder)
           /\ \A i \in 1..Len(DigitOrder) : digit_data[i].err = NoError
        THEN [err |-> NoError,
              data |-> hand_data.data \o palm_data.data
                         \o Flatten([i \in 1..Len(DigitOrder) |-> digit_data[i].data])]
        ELSE [err |-> "AttributeError", data |-> <<>>]

(***************************************************************************)
(* roll_up_data (data_capture.py:122-139).  The reversed list is consumed  *)
(* from its end by list.pop(), which raises IndexError on an empty list.   *)
(* `at` is the header the exception was raised at.                         *)
(***************************************************************************)
LeapCStructMock == <<>>

Reversed(list) == [i \in 1..Len(list) |-> list[Len(list) + 1 - i]]

RECURSIVE SetPath(_, _, _)
SetPath(root, header, value) ==
    IF Len(header) > 1
    THEN LET root_header == Head(header)
             child == IF root_header \in DOMAIN root
                      THEN root[root_header]
                      ELSE LeapCStructMock
         IN  (root_header :> SetPath(child, Tail(header), value)) @@ root
    ELSE (Head(header) :> value) @@ root

\* a pop that pads with a default instead of raising
PopPadded(list) ==
    IF Len(list) = 0
    THEN [err |-> NoError, value |-> 0, rest |-> list]
    ELSE [err |-> NoError, value |-> list[Len(list)],
          rest |-> SubSeq(list, 1, Len(list) - 1)]

Pop(list) ==
    IF Len(list) = 0
    THEN [err |-> "IndexError", value |-> 0, rest |-> list]
    ELSE [err |-> NoError, value |-> list[Len(list)],
          rest |-> SubSeq(list, 1, Len(list) - 1)]

RECURSIVE RollUpFrom(_, _, _, _)
RollUpFrom(struct, extracted_data_reversed, headers, i) ==
    IF i > Len(headers)
    THEN [err |-> NoError, at |-> <<>>, struct |-> struct,
          rest |-> extracted_data_reversed]
    ELSE LET popped == Pop(extracted_data_reversed)
         IN  IF popped.err # NoError
             THEN [err |-> popped.err, at |-> headers[i], struct |-> struct,
                   rest |-> popped.rest]
             ELSE RollUpFrom(SetPath(struct, headers[i], popped.value),
                             popped.rest, headers, i + 1)

roll_up_data(extracted_data_reversed, headers) ==
    RollUpFrom(LeapCStructMock, extracted_data_reversed, headers, 1)

(***************************************************************************)
(* roll_up_digit_data (data_capture.py:142-153).                           *)
(***************************************************************************)
\* a bone left out of the loop
RollUpBoneOrderShort == <<"metacarpal", "proximal", "intermediate">>

RollUpBoneOrder == <<"metacarpal", "proximal", "intermediate", "distal">>

RECURSIVE RollUpBones(_, _, _)
RollUpBones(digit_data, extracted_data_reversed, i) ==
    IF i > Len(RollUpBoneOrder)
    THEN [err |-> NoError, at |-> <<>>, struct |-> digit_data,
          rest |-> extracted_data_reversed]
    ELSE LET bone == RollUpBoneOrder[i]
             bone_data == roll_up_data(extracted_data_reversed, bone_data_headers)
         IN  IF bone_data.err # NoError
             THEN [bone_data EXCEPT !.at = <<bone>> \o @]
             ELSE RollUpBones((bone :> bone_data.struct) @@ digit_data,
                              bone_data.rest, i + 1)

roll_up_digit_data(extracted_data_reversed) ==
    LET digit_data == roll_up_data(extracted_data_reversed, digit_data_headers)
    IN  IF digit_data.err # NoError
        THEN digit_data
        ELSE RollUpBones(digit_data.struct, digit_data.rest, 1)

(***************************************************************************)
(* roll_up_hand_data (data_capture.py:156-180).                            *)
(***************************************************************************)
\* the digits rebuilt in another order than Hand.digits lists them
RollUpDigitOrderSwapped == <<"index", "thumb", "middle", "ring", "pinky">>

RollUpDigitOrder == <<"thumb", "index", "middle", "ring", "pinky">>

RECURSIVE RollUpDigits(_, _, _)
RollUpDigits(hand_data, extracted_data_reversed, i) ==
    IF i > Len(RollUpDigitOrder)
    THEN [err |-> NoError, at |-> <<>>, struct |-> hand_data,
          rest |-> extracted_data_reversed]
    ELSE LET digit == RollUpDigitOrder[i]
             digit_data == roll_up_digit_data(extracted_data_reversed)
         IN  IF digit_data.err # NoError
             THEN [digit_data EXCEPT !.at = <<digit>> \o @]
             ELSE RollUpDigits((digit :> digit_data.struct) @@ hand_data,
                               digit_data.rest, i + 1)

\* the assertion left out
AllConsumedUnchecked(extracted_data_reversed) == TRUE

AllConsumed(extracted_data_reversed) == Len(extracted_data_reversed) = 0

roll_up_hand_data(extracted_hand_data) ==
    LET extracted_data_reversed == Reversed(extracted_hand_data)
        hand_data == roll_up_data(extracted_data_reversed, hand_data_headers)
        palm_data == roll_up_data(hand_data.rest, palm_data_headers)
        with_palm == ("palm" :> palm_data.struct) @@ hand_data.struct
        digit_data == RollUpDigits(with_palm, palm_data.rest, 1)
    IN  IF hand_data.err # NoError THEN hand_data
        ELSE IF palm_data.err # NoError
        THEN [palm_data EXCEPT !.at = <<"palm">> \o @]
        ELSE IF digit_data.err # NoError THEN digit_data
        ELSE IF ~AllConsumed(digit_data.rest)
        THEN [digit_data EXCEPT !.err = "AssertionError"]
        ELSE digit_data

(***************************************************************************)
(* LeapMotionTracker.__init__ (leap_motion_tracker.py:18-27).              *)
(***************************************************************************)
ScreenHeight == 500

ScreenWidth == 700

screen_size == <<ScreenHeight, ScreenWidth>>

\* np.zeros(...): no pixel set.  The image is the set of primitives painted
\* on the background since the last clear.
Background == {}

(***************************************************************************)
(* get_joint_position (leap_motion_tracker.py:53-57).  int() truncates     *)
(* towards zero; screen_size[1] / 2 is a float division.                   *)
(***************************************************************************)
PyInt(num, den) == IF num >= 0 THEN num \div den ELSE -((-num) \div den)

\* no test for an absent joint: it is projected like the origin
get_joint_position_unguarded(bone) ==
    IF Truthy(bone)
    THEN [px |-> PyInt(2 * bone.x + screen_size[2] * Scale, 2 * Scale),
          py |-> PyInt(2 * bone.z + screen_size[1] * Scale, 2 * Scale)]
    ELSE [px |-> PyInt(screen_size[2] * Scale, 2 * Scale),
          py |-> PyInt(screen_size[1] * Scale, 2 * Scale)]

get_joint_position(bone) ==
    IF Truthy(bone)
    THEN [px |-> PyInt(2 * bone.x + screen_size[2] * Scale, 2 * Scale),
          py |-> PyInt(2 * bone.z + screen_size[1] * Scale, 2 * Scale)]
    ELSE None

(***************************************************************************)
(* cv2.circle and cv2.line as render_hands calls them: one record per      *)
(* call, with the source line of the call (site) and the joints its points *)
(* were projected from (j1, j2).  A call whose point is None raises.       *)
(***************************************************************************)
JointRef(h, d, b, end) == [hand |-> h, digit |-> d, bone |-> b, end |-> end]

\* hand.arm is no digit's bone: digit and bone index -1
ArmRef(h, end) == JointRef(h, -1, -1, end)

circle(site, center, radius, j) ==
    [fn |-> "circle", site |-> site, pt1 |-> center, pt2 |-> center,
     size |-> radius, j1 |-> j, j2 |-> j]

line(site, pt1, pt2, thickness, j1, j2) ==
    [fn |-> "line", site |-> site, pt1 |-> pt1, pt2 |-> pt2,
     size |-> thickness, j1 |-> j1, j2 |-> j2]

When(cond, call) == IF cond THEN <<call>> ELSE <<>>

CallRaises(call) == ~Truthy(call.pt1) \/ ~Truthy(call.pt2)

Pixels(call) == [fn |-> call.fn, pt1 |-> call.pt1, pt2 |-> call.pt2, size |-> call.size]

Paint(image, calls) == image \cup {Pixels(calls[i]) : i \in 1..Len(calls)}

(***************************************************************************)
(* render_hands (leap_motion_tracker.py:59-121).                           *)
(***************************************************************************)
\* the buffer not cleared
ClearImageSkipped(image) == image

ClearImage(image) == Background

\* the thumb linked like the other digits
CrossLinkedThumbToo(index_digit, index_bone) ==
    (index_digit < 4) /\ (index_bone < 2)

CrossLinked(index_digit, index_bone) ==
    \/ (index_digit = 0) /\ (index_bone = 0)
    \/ (index_digit > 0) /\ (index_digit < 4) /\ (index_bone < 2)

DotsCalls(hand, h, index_digit, index_bone) ==
    LET bone == bones(digits(hand)[index_digit + 1])[index_bone + 1]
        prev_joint == get_joint_position(bone.prev_joint)
        next_joint == get_joint_position(bone.next_joint)
    IN  When(Truthy(prev_joint),
             circle(75, prev_joint, 2, JointRef(h, index_digit, index_bone, "prev_joint")))
        \o When(Truthy(next_joint),
                circle(78, next_joint, 2, JointRef(h, index_digit, index_bone, "next_joint")))

SkeletonCalls(hand, h, index_digit, index_bone) ==
    LET bone == bones(digits(hand)[index_digit + 1])[index_bone + 1]
        wrist == get_joint_position(hand.arm.next_joint)
        elbow == get_joint_position(hand.arm.prev_joint)
        bone_start == get_joint_position(bone.prev_joint)
        bone_end == get_joint_position(bone.next_joint)
        jw == ArmRef(h, "next_joint")
        je == ArmRef(h, "prev_joint")
        js == JointRef(h, index_digit, index_bone, "prev_joint")
        jn == JointRef(h, index_digit, index_bone, "next_joint")
        index_digit_next == index_digit + 1
        digit_next == digits(hand)[index_digit_next + 1]
        bone_next == bones(digit_next)[index_bone + 1]
        bone_next_start == get_joint_position(bone_next.prev_joint)
    IN  When(Truthy(wrist), circle(84, wrist, 3, jw))
        \o When(Truthy(elbow), circle(87, elbow, 3, je))
        \o When(Truthy(wrist) /\ Truthy(elbow), line(90, wrist, elbow, 2, jw, je))
        \o When(Truthy(bone_start), circle(96, bone_start, 3, js))
        \o When(Truthy(bone_end), circle(99, bone_end, 3, jn))
        \o When(Truthy(bone_start) /\ Truthy(bone_end),
                line(102, bone_start, bone_end, 2, js, jn))
        \o (IF CrossLinked(index_digit, index_bone)
            THEN When(Truthy(bone_start) /\ Truthy(bone_next_start),
                      line(112, bone_start, bone_next_start, 2, js,
                           JointRef(h, index_digit_next, index_bone, "prev_joint")))
            ELSE <<>>)
        \o When(index_bone = 0 /\ Truthy(bone_start) /\ Truthy(wrist),
                line(121, bone_start, wrist, 2, js, jw))

BoneCalls(hand, h, index_digit, index_bone, format) ==
    (IF format = "Dots" THEN DotsCalls(hand, h, index_digit, index_bone) ELSE <<>>)
    \o (IF format = "Skeleton"
        THEN SkeletonCalls(hand, h, index_digit, index_bone)
        ELSE <<>>)

\* for hand in hands: for index_digit in range(0, 5): for index_bone in range(0, 4)
HandCalls(hands, format) ==
    Flatten([h \in 1..Len(hands) |->
        Flatten([d \in 1..5 |->
            Flatten([b \in 1..4 |-> BoneCalls(hands[h], h, d - 1, b - 1, format)])])])

\* the calls made up to and including the first one that raises
UntilRaise(made) ==
    LET raising == {i \in 1..Len(made) : CallRaises(made[i])}
    IN  IF raising = {} THEN made
        ELSE SubSeq(made, 1, CHOOSE i \in raising : \A j \in raising : i <= j)

render_hands(image, hands, format) ==
    LET made == UntilRaise(HandCalls(hands, format))
        drawn == SelectSeq(made, LAMBDA c : ~CallRaises(c))
    IN  [image |-> Paint(ClearImage(image), drawn),
         calls |-> made,
         err |-> IF made # drawn THEN "error" ELSE NoError]

(***************************************************************************)
(* State.                                                                  *)
(***************************************************************************)
VARIABLES
    \* LeapMotionTracker (leap_motion_tracker.py:18-27)
    hands_format,       \* "Skeleton" or "Dots"
    output_image,       \* the owned image buffer
    most_recent_event,  \* None or the last TrackingEvent received
    connected,          \* connection.connect() done, disconnect() not yet
    has_new_event,      \* the flag data_capture.main polls
    \* the running program and its position
    prog,               \* "tracker": leap_motion_tracker.main, "capture":
                        \* data_capture.main, "render": calls of render_hands,
                        \* "codec": calls of the codec
    pc,
    key,                \* the last value cv2.waitKey returned
    \* history of the last render_hands call
    calls,              \* the cv2 calls it made
    render_err,         \* the exception it raised, or NoError
    last_hands,         \* its argument
    last_format,        \* hands_format when it ran
    dirty_before,       \* the image held something drawn when it was called
    \* history of the notifications
    delivered,          \* number of tracking notifications delivered
    pending,            \* notifications delivered since the last consumption
    rendered,           \* tracking_frame_id of the record consumed last
    latest_at_read,     \* `delivered` when that record was read
    lost,               \* notifications overwritten unseen before that read
    stale,              \* that read returned a record consumed before
    \* the codec (data_capture.py:200-210 and direct calls)
    entry,              \* "main" or "call"
    hand,               \* the variable `hand`, None before a call returns
    orig,               \* the Hand the flattened list came from
    hand_data,          \* the flat list given to roll_up_hand_data
    hand_data_test,     \* the list re-extracted from the rolled-up Hand
    err,                \* exception raised by the codec, or NoError
    at,                 \* header path roll_up_data raised at
    rest                \* extracted_data_reversed when roll_up_hand_data ended

trackerVars ==
    <<hands_format, output_image, calls, render_err, last_hands, last_format,
      dirty_before>>

sourceVars == <<most_recent_event, connected, has_new_event, delivered, pending>>

readVars == <<rendered, latest_at_read, lost, stale>>

codecVars == <<entry, hand, orig, hand_data, hand_data_test, err, at, rest>>

vars == <<trackerVars, sourceVars, readVars, codecVars, prog, pc, key>>

(***************************************************************************)
(* Inputs.                                                                 *)
(***************************************************************************)
JointEnds == {"prev_joint", "next_joint"}

\* <<digit index, bone index, end>>; <<-1, -1, end>> is a joint of hand.arm
JointIds == ((0..4) \X (0..3) \X JointEnds) \cup ({-1} \X {-1} \X JointEnds)

MaskBone(bone, d, b, absent) ==
    [bone EXCEPT !.prev_joint = IF <<d, b, "prev_joint">> \in absent THEN None ELSE @,
                 !.next_joint = IF <<d, b, "next_joint">> \in absent THEN None ELSE @]

MaskDigit(digit, d, absent) ==
    [digit EXCEPT !.metacarpal = MaskBone(@, d, 0, absent),
                  !.proximal = MaskBone(@, d, 1, absent),
                  !.intermediate = MaskBone(@, d, 2, absent),
                  !.distal = MaskBone(@, d, 3, absent)]

\* the Hand `h` with the joints of `absent` None
WithAbsent(h, absent) ==
    [h EXCEPT !.arm = MaskBone(@, -1, -1, absent),
              !.thumb = MaskDigit(@, 0, absent),
              !.index = MaskDigit(@, 1, absent),
              !.middle = MaskDigit(@, 2, absent),
              !.ring = MaskDigit(@, 3, absent),
              !.pinky = MaskDigit(@, 4, absent)]

AbsentSets ==
    {{}} \cup {{j} : j \in JointIds} \cup {{j \in JointIds : j[3] = "next_joint"}}

\* hand lists given to render_hands directly
RenderInputs ==
    {<<>>}
    \cup {<<MkHand("Right", v)>> : v \in 1..NVariants}
    \cup {<<WithAbsent(MkHand("Right", 1), a)>> : a \in AbsentSets}
    \cup {<<MkHand("Left", 1), WithAbsent(MkHand("Right", NVariants), a)>> :
              a \in {{}, {<<1, 0, "next_joint">>}, {<<-1, -1, "next_joint">>}}}

\* hand lists of the tracking events: the tracking source delivers whole hands
EventHands ==
    {<<>>, <<MkHand("Right", 1)>>, <<MkHand("Left", 1), MkHand("Right", NVariants)>>}

\* hands whose flattened list the codec is called on
CodecHands == {MkHand(t, v) : t \in HandTypes, v \in 1..NVariants}

\* the list a caller gives roll_up_hand_data: the first n scalars of a
\* flattened Hand, or all of them and n - Len more
Extras == [i \in 1..MaxExtra |-> 1000 + i]

ArgList(flat, n) ==
    IF n <= Len(flat) THEN SubSeq(flat, 1, n)
    ELSE flat \o SubSeq(Extras, 1, n - Len(flat))

(***************************************************************************)
(* on_tracking_event (leap_motion_tracker.py:44-45).                       *)
(***************************************************************************)
\* a record kept until it is replaced by nothing: the first one wins
on_tracking_event_keep_first(current, event) ==
    IF Truthy(current) THEN current ELSE event

on_tracking_event(current, event) == event

\* the flag is set with the record (data_capture.py:187 polls it)
FlagOnEvent(flag) == TRUE

\* tracker.event (data_capture.py:188, 200): consumes the record and clears
\* the flag in one step
ConsumeFlag(flag) == FALSE

(***************************************************************************)
(* Key handling (leap_motion_tracker.py:132-140, data_capture.py:190-198). *)
(***************************************************************************)
OrdX == 120

OrdF == 102

\* cv2.waitKey(1): -1 when no key was pressed, else the key's code
Keys == {OrdX, OrdF, 113, -1}

\* the toggle key leaving the loop as well
KeyBreaksOnToggle(k) == k = OrdX \/ k = OrdF

KeyBreaks(k) == k = OrdX

ToggleFormat(format) == IF format = "Skeleton" THEN "Dots" ELSE "Skeleton"

FormatAfterKey(k, format) ==
    IF KeyBreaks(k) THEN format
    ELSE IF k = OrdF THEN ToggleFormat(format)
    ELSE format

(***************************************************************************)
(* data_capture.main, lines 200-210: the round trip of every hand that is  *)
(* not a left hand.  The result is the exception raised, or NoError.       *)
(***************************************************************************)
RECURSIVE VerifyHands(_, _)
VerifyHands(hands, i) ==
    IF i > Len(hands) THEN NoError
    ELSE IF hands[i].type = "Left" THEN VerifyHands(hands, i + 1)
    ELSE LET flat == extract_hand_data(hands[i])
             rolled == roll_up_hand_data(flat.data)
             flat_test == extract_hand_data(rolled.struct)
         IN  IF flat.err # NoError THEN flat.err
             ELSE IF rolled.err # NoError THEN rolled.err
             ELSE IF flat_test.err # NoError THEN flat_test.err
             ELSE IF flat.data # flat_test.data THEN "AssertionError"
             ELSE VerifyHands(hands, i + 1)

(***************************************************************************)
(* Initial states.                                                         *)
(***************************************************************************)
TrackerInit ==
    /\ hands_format = "Skeleton"
    /\ output_image = Background
    /\ most_recent_event = None
    /\ connected = FALSE
    /\ has_new_event = FALSE
    /\ key = -1
    /\ calls = <<>>
    /\ render_err = NoError
    /\ last_hands = <<>>
    /\ last_format = "Skeleton"
    /\ dirty_before = FALSE
    /\ delivered = 0
    /\ pending = 0
    /\ rendered = 0
    /\ latest_at_read = 0
    /\ lost = 0
    /\ stale = FALSE

CodecIdle ==
    /\ entry = "main"
    /\ hand = None
    /\ orig = None
    /\ hand_data = <<>>
    /\ hand_data_test = <<>>
    /\ err = NoError
    /\ at = <<>>
    /\ rest = <<>>

\* the two poll loops
Init ==
    /\ TrackerInit
    /\ CodecIdle
    /\ prog \in {"tracker", "capture"}
    /\ pc = "init"

\* render_hands called on a fresh tracker
InitRender ==
    /\ TrackerInit
    /\ CodecIdle
    /\ prog = "render"
    /\ pc = "ready"

\* the codec: the body of main's loop over the hands (entry "main"), or
\* roll_up_hand_data called on a list of any length (entry "call")
InitCodec ==
    /\ TrackerInit
    /\ prog = "codec"
    /\ orig \in CodecHands
    /\ hand_data_test = <<>>
    /\ err = NoError
    /\ at = <<>>
    /\ rest = <<>>
    /\ \/ /\ entry = "main"
          /\ hand = orig
          /\ hand_data = <<>>
          /\ pc = "start"
       \/ /\ entry = "call"
          /\ hand = None
          /\ \E n \in 0..(Len(extract_hand_data(orig).data) + MaxExtra) :
                 hand_data = ArgList(extract_hand_data(orig).data, n)
          /\ pc = "extracted"

(***************************************************************************)
(* The codec, step by step (data_capture.py:200-210).                      *)
(***************************************************************************)
\* 201-202: a left hand is skipped
MainSkipLeft ==
    /\ prog = "codec" /\ entry = "main" /\ pc = "start"
    /\ hand.type = "Left"
    /\ pc' = "skipped"
    /\ UNCHANGED <<trackerVars, sourceVars, readVars, codecVars, prog, key>>

\* 204: hand_data = extract_hand_data(hand)
MainExtract ==
    /\ prog = "codec" /\ entry = "main" /\ pc = "start"
    /\ hand.type # "Left"
    /\ LET flat == extract_hand_data(hand)
       IN  /\ hand_data' = flat.data
           /\ err' = flat.err
           /\ pc' = IF flat.err = NoError THEN "extracted" ELSE "raised"
    /\ UNCHANGED <<trackerVars, sourceVars, readVars, prog, key,
                   entry, hand, orig, hand_data_test, at, rest>>

\* 206: hand = roll_up_hand_data(hand_data); `hand` is bound only when the
\* call returns
RollUp ==
    /\ prog = "codec" /\ pc = "extracted"
    /\ LET rolled == roll_up_hand_data(hand_data)
       IN  /\ err' = rolled.err
           /\ at' = rolled.at
           /\ rest' = rolled.rest
           /\ hand' = IF rolled.err = NoError THEN rolled.struct ELSE hand
           /\ pc' = IF rolled.err = NoError THEN "rolled" ELSE "raised"
    /\ UNCHANGED <<trackerVars, sourceVars, readVars, prog, key,
                   entry, orig, hand_data, hand_data_test>>

\* 208: hand_data_test = extract_hand_data(hand)
ReExtract ==
    /\ prog = "codec" /\ pc = "rolled"
    /\ LET flat == extract_hand_data(hand)
       IN  /\ hand_data_test' = flat.data
           /\ err' = flat.err
           /\ pc' = IF flat.err = NoError THEN "reextracted" ELSE "raised"
    /\ UNCHANGED <<trackerVars, sourceVars, readVars, prog, key,
                   entry, hand, orig, hand_data, at, rest>>

\* 210: assert hand_data == hand_data_test
MainAssert ==
    /\ prog = "codec" /\ entry = "main" /\ pc = "reextracted"
    /\ err' = IF hand_data = hand_data_test THEN NoError ELSE "AssertionError"
    /\ pc' = IF hand_data = hand_data_test THEN "verified" ELSE "raised"
    /\ UNCHANGED <<trackerVars, sourceVars, readVars, prog, key,
                   entry, hand, orig, hand_data, hand_data_test, at, rest>>

NextCodec == MainSkipLeft \/ MainExtract \/ RollUp \/ ReExtract \/ MainAssert

SpecCodec == InitCodec /\ [][NextCodec]_vars

(***************************************************************************)
(* render_hands called directly, and hands_format set between calls.       *)
(***************************************************************************)
Render(hands) ==
    LET r == render_hands(output_image, hands, hands_format)
    IN  /\ output_image' = r.image
        /\ calls' = r.calls
        /\ render_err' = r.err
        /\ last_hands' = hands
        /\ last_format' = hands_format
        /\ dirty_before' = (output_image # Background)
        /\ UNCHANGED hands_format

RenderCall ==
    /\ prog = "render" /\ pc \in {"ready", "rendered"}
    /\ \E hands \in RenderInputs : Render(hands)
    /\ pc' = IF render_err' = NoError THEN "rendered" ELSE "raised"
    /\ UNCHANGED <<sourceVars, readVars, codecVars, prog, key>>

SetFormat ==
    /\ prog = "render" /\ pc \in {"ready", "rendered"}
    /\ hands_format' = ToggleFormat(hands_format)
    /\ UNCHANGED <<output_image, calls, render_err, last_hands, last_format, dirty_before,
                   sourceVars, readVars, codecVars, prog, pc, key>>

NextRender == RenderCall \/ SetFormat

SpecRender == InitRender /\ [][NextRender]_vars

(***************************************************************************)
(* The tracking source: a notification on its own thread, at any time      *)
(* between connect() and disconnect().                                     *)
(***************************************************************************)
OnTrackingEvent ==
    /\ prog \in {"tracker", "capture"}
    /\ connected
    /\ delivered < MaxEvents
    /\ \E hands \in EventHands :
           most_recent_event' =
               on_tracking_event(most_recent_event,
                                 [tracking_frame_id |-> delivered + 1, hands |-> hands])
    /\ has_new_event' = IF prog = "capture" THEN FlagOnEvent(has_new_event)
                        ELSE has_new_event
    /\ delivered' = delivered + 1
    /\ pending' = pending + 1
    /\ UNCHANGED <<trackerVars, readVars, codecVars, connected, prog, pc, key>>

\* the loop reads the record and renders its hands
Consume(next_pc) ==
    /\ Render(most_recent_event.hands)
    /\ rendered' = most_recent_event.tracking_frame_id
    /\ latest_at_read' = delivered
    /\ lost' = IF pending > 0 THEN pending - 1 ELSE 0
    /\ stale' = (pending = 0)
    /\ pending' = 0
    /\ pc' = IF render_err' = NoError THEN next_pc ELSE "raised"

(***************************************************************************)
(* leap_motion_tracker.main (leap_motion_tracker.py:124-141).              *)
(***************************************************************************)
\* 125-126: tracker = LeapMotionTracker(); tracker.run()
TrackerRun ==
    /\ prog = "tracker" /\ pc = "init"
    /\ connected' = TRUE
    /\ pc' = "sleep"
    /\ UNCHANGED <<trackerVars, readVars, codecVars, most_recent_event,
                   has_new_event, delivered, pending, prog, key>>

\* 128: time.sleep(1)
LoopSleep ==
    /\ prog = "tracker" /\ pc = "sleep"
    /\ pc' = "check"
    /\ UNCHANGED <<trackerVars, sourceVars, readVars, codecVars, prog, key>>

\* 129: if tracker.most_recent_event:
LoopCheck ==
    /\ prog = "tracker" /\ pc = "check"
    /\ pc' = IF Truthy(most_recent_event) THEN "render" ELSE "sleep"
    /\ UNCHANGED <<trackerVars, sourceVars, readVars, codecVars, prog, key>>

\* 130: tracker.render_hands(tracker.most_recent_event.hands)
LoopRender ==
    /\ prog = "tracker" /\ pc = "render"
    /\ Consume("show")
    /\ UNCHANGED <<codecVars, most_recent_event, connected, has_new_event,
                   delivered, prog, key>>

\* 131-140: imshow, waitKey and the two commands
LoopKey ==
    /\ prog = "tracker" /\ pc = "show"
    /\ \E k \in Keys :
           /\ key' = k
           /\ hands_format' = FormatAfterKey(k, hands_format)
           /\ pc' = IF KeyBreaks(k) THEN "stop" ELSE "sleep"
    /\ UNCHANGED <<output_image, calls, render_err, last_hands, last_format, dirty_before,
                   sourceVars, readVars, codecVars, prog>>

\* 141: tracker.stop()
TrackerStop ==
    /\ prog = "tracker" /\ pc = "stop"
    /\ connected' = FALSE
    /\ pc' = "done"
    /\ UNCHANGED <<trackerVars, readVars, codecVars, most_recent_event,
                   has_new_event, delivered, pending, prog, key>>

(***************************************************************************)
(* data_capture.main (data_capture.py:183-214).                            *)
(***************************************************************************)
\* 185: with LeapMotionTracker() as tracker:
CaptureEnter ==
    /\ prog = "capture" /\ pc = "init"
    /\ connected' = TRUE
    /\ pc' = "poll"
    /\ UNCHANGED <<trackerVars, readVars, codecVars, most_recent_event,
                   has_new_event, delivered, pending, prog, key>>

\* 187: if tracker.has_new_event:
CapturePoll ==
    /\ prog = "capture" /\ pc = "poll"
    /\ pc' = IF has_new_event THEN "render" ELSE "poll"
    /\ UNCHANGED <<trackerVars, sourceVars, readVars, codecVars, prog, key>>

\* 188: tracker.render_hands(tracker.event.hands)
CaptureRender ==
    /\ prog = "capture" /\ pc = "render"
    /\ Consume("show")
    /\ has_new_event' = ConsumeFlag(has_new_event)
    /\ UNCHANGED <<codecVars, most_recent_event, connected, delivered, prog, key>>

\* 189-198: imshow, waitKey and the two commands
CaptureKey ==
    /\ prog = "capture" /\ pc = "show"
    /\ \E k \in Keys :
           /\ key' = k
           /\ hands_format' = FormatAfterKey(k, hands_format)
           /\ pc' = IF KeyBreaks(k) THEN "exit" ELSE "verify"
    /\ UNCHANGED <<output_image, calls, render_err, last_hands, last_format, dirty_before,
                   sourceVars, readVars, codecVars, prog>>

\* 200-210: for hand in tracker.event.hands: the round trip of each hand
CaptureVerify ==
    /\ prog = "capture" /\ pc = "verify"
    /\ has_new_event' = ConsumeFlag(has_new_event)
    /\ pending' = 0
    /\ err' = VerifyHands(most_recent_event.hands, 1)
    /\ pc' = IF err' = NoError THEN "poll" ELSE "raised"
    /\ UNCHANGED <<trackerVars, readVars, most_recent_event, connected, delivered,
                   entry, hand, orig, hand_data, hand_data_test, at, rest, prog, key>>

\* leaving the with block
CaptureExit ==
    /\ prog = "capture" /\ pc = "exit"
    /\ connected' = FALSE
    /\ pc' = "done"
    /\ UNCHANGED <<trackerVars, readVars, codecVars, most_recent_event,
                   has_new_event, delivered, pending, prog, key>>

Next ==
    \/ OnTrackingEvent
    \/ TrackerRun \/ LoopSleep \/ LoopCheck \/ LoopRender \/ LoopKey \/ TrackerStop
    \/ CaptureEnter \/ CapturePoll \/ CaptureRender \/ CaptureKey \/ CaptureVerify
    \/ CaptureExit

Spec == Init /\ [][Next]_vars

(***************************************************************************)
(* The schema, stated once for the properties: the header paths of a       *)
(* flattened Hand in the order hand, palm, then thumb..pinky, each digit   *)
(* followed by its bones metacarpal..distal.                               *)
(***************************************************************************)
ThumbToPinky == <<"thumb", "index", "middle", "ring", "pinky">>

MetacarpalToDistal == <<"metacarpal", "proximal", "intermediate", "distal">>

Prefixed(prefix, headers) == [i \in 1..Len(headers) |-> prefix \o headers[i]]

SchemaPaths ==
    hand_data_headers
    \o Prefixed(<<"palm">>, palm_data_headers)
    \o Flatten([d \in 1..5 |->
           Prefixed(<<ThumbToPinky[d]>>, digit_data_headers)
           \o Flatten([b \in 1..4 |->
                  Prefixed(<<ThumbToPinky[d], MetacarpalToDistal[b]>>,
                           bone_data_headers)])])

SchemaCount ==
    Len(hand_data_headers) + Len(palm_data_headers)
        + 5 * (Len(digit_data_headers) + 4 * Len(bone_data_headers))

\* the scalars of Hand h in schema order
Scalars(h) == [i \in 1..Len(SchemaPaths) |-> GetPath(h, SchemaPaths[i])]

CodecEnded == prog = "codec" /\ pc \in {"rolled", "reextracted", "verified", "raised"}

(***************************************************************************)
(* C1 - Round-trip identity: flattening a Hand, rolling the list up and    *)
(* flattening the result gives the first list again, element by element:   *)
(* every scalar is back at the position, and in the rolled-up Hand under   *)
(* the header path, it was flattened from; the round trip raises nothing.  *)
(***************************************************************************)
RoundTripIdentity ==
    /\ (prog = "codec" /\ pc \in {"reextracted", "verified"}) =>
           /\ hand_data_test = hand_data
           /\ hand_data_test = Scalars(orig)
           /\ Scalars(hand) = Scalars(orig)
    /\ (prog = "codec" /\ pc = "raised") =>
           /\ entry = "call"
           /\ Len(hand_data) # SchemaCount

RoundTripWitness ==
    /\ prog = "codec" /\ entry = "main" /\ pc = "verified"
    /\ hand_data_test = hand_data
    /\ Len(hand_data_test) = SchemaCount
    /\ orig.thumb.metacarpal.width # orig.index.metacarpal.width
    /\ orig.thumb.metacarpal.width # orig.thumb.proximal.width

(***************************************************************************)
(* C2 - Exact consumption: a flattened Hand has 5 + 20 + 5 * (1 + 4 * 11)  *)
(* = 250 scalars; roll_up_hand_data given such a list consumes all 250,    *)
(* the i-th for the i-th header path, and leaves none.                     *)
(***************************************************************************)
ExactConsumption ==
    /\ SchemaCount = 250
    /\ Len(SchemaPaths) = 250
    /\ prog = "codec" => Len(extract_hand_data(orig).data) = 250
    /\ (prog = "codec" /\ entry = "main" /\ pc = "extracted") => Len(hand_data) = 250
    /\ (CodecEnded /\ Len(hand_data) = 250) =>
           /\ pc # "raised"
           /\ rest = <<>>
           /\ Len(hand_data) - Len(rest) = SchemaCount
           /\ \A i \in 1..250 : GetPath(hand, SchemaPaths[i]) = hand_data[i]

ExactConsumptionWitness ==
    /\ prog = "codec" /\ entry = "call" /\ pc = "rolled"
    /\ Len(hand_data) = 250
    /\ rest = <<>>

(***************************************************************************)
(* C3 - Leftover detection: given more scalars than the schema counts,     *)
(* roll_up_hand_data raises (the assertion on the unconsumed rest) and     *)
(* returns no Hand; the extra scalars are still there, not dropped.        *)
(***************************************************************************)
LeftoverDetected ==
    (CodecEnded /\ Len(hand_data) > SchemaCount) =>
        /\ pc = "raised"
        /\ err = "AssertionError"
        /\ hand = None
        /\ Len(rest) = Len(hand_data) - SchemaCount

LeftoverWitness ==
    /\ prog = "codec" /\ pc = "raised"
    /\ Len(hand_data) = SchemaCount + 1
    /\ err = "AssertionError"

(***************************************************************************)
(* C4 - Underflow: given n < 250 scalars, roll_up_hand_data raises at      *)
(* header path number n + 1, the first one no scalar is left for, and      *)
(* returns no Hand: nothing is padded.                                     *)
(***************************************************************************)
UnderflowRaises ==
    (CodecEnded /\ entry = "call" /\ Len(hand_data) < SchemaCount) =>
        /\ pc = "raised"
        /\ err = "IndexError"
        /\ at = SchemaPaths[Len(hand_data) + 1]
        /\ rest = <<>>
        /\ hand = None

UnderflowWitness ==
    /\ prog = "codec" /\ pc = "raised"
    /\ err = "IndexError"
    /\ Len(hand_data) = SchemaCount - 1
    /\ at = <<"pinky", "distal", "rotation", "w">>

(***************************************************************************)
(* Joints of the hands of the last render_hands call, by reference.        *)
(***************************************************************************)
JointAt(hands, j) ==
    IF j.digit = -1
    THEN hands[j.hand].arm[j.end]
    ELSE hands[j.hand][ThumbToPinky[j.digit + 1]][MetacarpalToDistal[j.bone + 1]][j.end]

Present(hands, j) == Truthy(JointAt(hands, j))

AllPresent(hands, h) ==
    \A id \in JointIds : Present(hands, JointRef(h, id[1], id[2], id[3]))

CrossLinkPairs ==
    {<<0, 0>>, <<1, 0>>, <<1, 1>>, <<2, 0>>, <<2, 1>>, <<3, 0>>, <<3, 1>>}

\* the calls of the last render that draw a cross-link of hand h
CrossLinks(h) == {i \in 1..Len(calls) : calls[i].site = 112 /\ calls[i].j1.hand = h}

RenderReturned == prog = "render" /\ pc = "rendered"

(***************************************************************************)
(* C7 - Connectivity coverage: in Skeleton mode, for a hand with every     *)
(* joint present, exactly 7 cross-links are drawn, one from the start of   *)
(* each (digit, bone) of (0,0),(1,0),(1,1),(2,0),(2,1),(3,0),(3,1) to the  *)
(* start of the same bone of digit + 1; digit 4 and bones 2, 3 start none  *)
(* and the next digit is at most 4.                                        *)
(***************************************************************************)
ConnectivityCoverage ==
    (RenderReturned /\ last_format = "Skeleton") =>
        \A h \in 1..Len(last_hands) :
            AllPresent(last_hands, h) =>
                /\ Cardinality(CrossLinks(h)) = 7
                /\ {<<calls[i].j1.digit, calls[i].j1.bone>> : i \in CrossLinks(h)}
                       = CrossLinkPairs
                /\ \A i \in CrossLinks(h) :
                       /\ calls[i].fn = "line"
                       /\ calls[i].j1.end = "prev_joint"
                       /\ calls[i].j2 = JointRef(h, calls[i].j1.digit + 1,
                                                 calls[i].j1.bone, "prev_joint")
                       /\ calls[i].j2.digit <= 4
                       /\ calls[i].pt1 = get_joint_position(JointAt(last_hands, calls[i].j1))
                       /\ calls[i].pt2 = get_joint_position(JointAt(last_hands, calls[i].j2))

ConnectivityWitness ==
    /\ RenderReturned /\ last_format = "Skeleton"
    /\ Len(last_hands) = 2
    /\ AllPresent(last_hands, 1) /\ AllPresent(last_hands, 2)
    /\ Cardinality(CrossLinks(1)) = 7 /\ Cardinality(CrossLinks(2)) = 7

(***************************************************************************)
(* C8 - Absent-joint skip: render_hands never raises; no call it makes,    *)
(* marker or line, in Dots or Skeleton mode, has an absent joint as a      *)
(* point; and every marker and line of the mode whose joints are present   *)
(* is drawn.                                                               *)
(***************************************************************************)
\* <<site, first joint, second joint>> of the calls the rules of a mode ask for
Wanted(hands, format) ==
    UNION {
        LET js == JointRef(h, db[1], db[2], "prev_joint")
            jn == JointRef(h, db[1], db[2], "next_joint")
            jw == ArmRef(h, "next_joint")
            je == ArmRef(h, "prev_joint")
            jx == JointRef(h, db[1] + 1, db[2], "prev_joint")
        IN  IF format = "Dots"
            THEN {<<75, js, js>>, <<78, jn, jn>>}
            ELSE {<<84, jw, jw>>, <<87, je, je>>, <<90, jw, je>>,
                  <<96, js, js>>, <<99, jn, jn>>, <<102, js, jn>>}
                 \cup (IF db \in CrossLinkPairs THEN {<<112, js, jx>>} ELSE {})
                 \cup (IF db[2] = 0 THEN {<<121, js, jw>>} ELSE {})
        : h \in 1..Len(hands), db \in (0..4) \X (0..3)}

Drawable(hands, format) ==
    {w \in Wanted(hands, format) : Present(hands, w[2]) /\ Present(hands, w[3])}

AbsentJointSkip ==
    (prog = "render" /\ pc # "ready") =>
        /\ pc = "rendered"
        /\ render_err = NoError
        /\ \A i \in 1..Len(calls) :
               /\ Present(last_hands, calls[i].j1)
               /\ Present(last_hands, calls[i].j2)
        /\ {<<calls[i].site, calls[i].j1, calls[i].j2>> : i \in 1..Len(calls)}
               = Drawable(last_hands, last_format)

\* the proximal bone of the index finger has no next_joint: its end marker
\* and bone line are missing, its start marker and cross-links are drawn
AbsentJointWitness ==
    /\ RenderReturned /\ last_format = "Skeleton"
    /\ Len(last_hands) = 1
    /\ ~Present(last_hands, JointRef(1, 1, 1, "next_joint"))
    /\ Present(last_hands, JointRef(1, 1, 1, "prev_joint"))
    /\ \E i \in 1..Len(calls) :
           calls[i].site = 96 /\ calls[i].j1 = JointRef(1, 1, 1, "prev_joint")
    /\ \E i \in 1..Len(calls) :
           calls[i].site = 112 /\ calls[i].j1 = JointRef(1, 1, 1, "prev_joint")
    /\ ~\E i \in 1..Len(calls) : calls[i].site \in {99, 102} /\ calls[i].j1.digit = 1
                                    /\ calls[i].j1.bone = 1

(***************************************************************************)
(* C9 - Clear-first rendering: after a render the buffer holds what that   *)
(* call drew for its hand list in the mode of the call, and nothing of     *)
(* earlier renders; after a render of an empty list it is all background.  *)
(***************************************************************************)
ClearFirst ==
    RenderReturned =>
        /\ output_image = {Pixels(calls[i]) : i \in 1..Len(calls)}
        /\ {<<calls[i].site, calls[i].j1, calls[i].j2>> : i \in 1..Len(calls)}
               \subseteq Wanted(last_hands, last_format)
        /\ last_hands = <<>> => output_image = Background

ClearFirstWitness ==
    /\ RenderReturned
    /\ dirty_before
    /\ last_hands = <<>>
    /\ output_image = Background

(***************************************************************************)
(* C5 - Flag overwrite: the tracker holds one record, the last one         *)
(* delivered; whenever the loop reads, it gets the last notification       *)
(* delivered before the read, however many came since the read before.     *)
(***************************************************************************)
FlagOverwrite ==
    /\ delivered = 0 => most_recent_event = None
    /\ delivered > 0 =>
           /\ Truthy(most_recent_event)
           /\ most_recent_event.tracking_frame_id = delivered
    /\ rendered > 0 => rendered = latest_at_read

FlagOverwriteWitness ==
    /\ pc = "show"
    /\ lost >= 1
    /\ rendered >= 2
    /\ rendered = latest_at_read

(***************************************************************************)
(* C6 - Consume-and-clear: a record the loop has consumed is not consumed  *)
(* by a later iteration unless a notification arrived in between.          *)
(***************************************************************************)
ConsumeAndClear == ~stale

(***************************************************************************)
(* C10 - Loop termination: the loop is left only by the iteration that     *)
(* read the quit key; the toggle key flips the mode and any other key      *)
(* changes nothing, and both leave the loop running; no iteration raises.  *)
(***************************************************************************)
LoopLeft == pc \in {"stop", "exit", "done"}

LoopTermination ==
    /\ [](LoopLeft => key = OrdX)
    /\ [](prog \in {"tracker", "capture"} => pc # "raised")
    /\ [][ /\ (LoopLeft' /\ ~LoopLeft) => (pc = "show" /\ key' = OrdX)
           /\ (pc = "show" /\ pc' # "show") =>
                  /\ key' = OrdX => (LoopLeft' /\ hands_format' = hands_format)
                  /\ key' = OrdF =>
                         /\ ~LoopLeft'
                         /\ hands_format' # hands_format
                         /\ hands_format' \in {"Dots", "Skeleton"}
                  /\ key' \notin {OrdX, OrdF} =>
                         (~LoopLeft' /\ hands_format' = hands_format)
           /\ pc # "show" => hands_format' = hands_format ]_vars

LoopTerminationWitness ==
    /\ pc = "done"
    /\ key = OrdX
    /\ hands_format = "Dots"
    /\ rendered >= 2

====
